---- MODULE Spec2Model ----
(***************************************************************************)
(* Audit App Dashboard (main.py): the data-access / row-normalisation /    *)
(* filter-sort helpers and the embedded OpenCV player, as state machines.  *)
(*                                                                         *)
(*   Spec      the embedded player (OpenCVEmbeddedPlayer and its UI        *)
(*             handlers) over a small file system of video files           *)
(*   SpecData  program start-up (load_video_data, initial render) and the  *)
(*             filter / sort comboboxes over a bounded database            *)
(*   SpecPure  _coerce_rows_to_8cols and sort_videos applied to arbitrary  *)
(*             bounded row lists                                           *)
(*   SpecApi   Spec plus the player's methods called with any argument     *)
(*   SpecLive  load / play / pause / stop and the timer, with the event    *)
(*             loop running every queued callback                          *)
(*   SpecApp   the whole window: start-up, filters, video selection,       *)
(*             accept / reject and playback                                *)
(*                                                                         *)
(* Every field of a row is a string (the integer id is written as its      *)
(* decimal text); Python's None is the string "None" where a field of the  *)
(* player holds it, and the empty tuple where parse_timestamp returns it.  *)
(***************************************************************************)
EXTENDS Integers, Sequences, FiniteSets, TLC

VARIABLES
    \* ---- player (OpenCVEmbeddedPlayer fields + the widgets it drives)
    cap,                  \* self.cap: "None" or the path the handle is open on
    cap_pos,              \* the handle's CAP_PROP_POS_FRAMES (next frame to read)
    playing,              \* self.playing
    video_path,           \* self.video_path
    fps_delay,            \* self.fps_delay
    total_frames,         \* self.total_frames
    current_frame_index,  \* self.current_frame_index
    speed_factor,         \* self.speed_factor, in tenths (10 = 1.0x)
    after_id,             \* self._after_id: "None", "pending" (names a callback
                          \*   still queued) or "fired" (names one that already ran)
    timers,               \* number of _next_frame callbacks queued in the event loop
    buttons,              \* state of the eight transport buttons
    scale_to,             \* progress_scale's upper end
    scale_val,            \* progress_scale's value
    dialog,               \* message box shown by the last handler ("None" if none)
    after_delay,          \* delay (ms) the last handler passed to label.after,
                          \*   -1 if it scheduled nothing
    open_caps,            \* capture handles the player opened and has not released
    last,                 \* history: the last player handler run, its argument,
                          \*   the player it started from, and a bit every
                          \*   user operation flips
    \* ---- data layer (module-level state of main.py)
    db,                   \* the environment: the file at DB_PATH
    phase,                \* "boot", "running", or "crashed" (uncaught exception)
    fetched,              \* what fetch_videos_from_db returned at start-up
    ALL_VIDEOS,           \* the in-memory record list
    date_combo, booth_combo, camera_combo, sort_combo,
    rendered,             \* the list last handed to render_video_grid
    selected_video,       \* the StringVar selected_video
    \* ---- pure-function harness
    in_rows,              \* input rows
    out_rows,             \* _coerce_rows_to_8cols(in_rows)
    sorted_rows,          \* sort_videos(out_rows, latest)
    pstep                 \* "input", "coerced", "sorted_latest", "sorted_oldest"

playerVars == <<cap, cap_pos, playing, video_path, fps_delay, total_frames,
                current_frame_index, speed_factor, after_id, timers, buttons,
                scale_to, scale_val, dialog, after_delay, open_caps, last>>
dataVars == <<db, phase, fetched, ALL_VIDEOS, date_combo, booth_combo,
              camera_combo, sort_combo, rendered, selected_video>>
pureVars == <<in_rows, out_rows, sorted_rows, pstep>>
vars == <<playerVars, dataVars, pureVars>>

\* ------------------------------------------------------------------ bounds
\* most rows in the videos table
MaxRows == 3
\* widest row (columns) the database or an input list holds
MaxCols == 9
\* longest row list handed to the pure-function harness
MaxPureLen == 2

\* ------------------------------------------------------------ small helpers
Min(a, b) == IF a < b THEN a ELSE b
Max(a, b) == IF a > b THEN a ELSE b
Range(s) == {s[i] : i \in 1..Len(s)}
\* Python r[:n]
Take(r, n) == SubSeq(r, 1, Min(n, Len(r)))
\* Python [x] * n
Repeat(x, n) == [i \in 1..Max(n, 0) |-> x]

\* ------------------------------------------------------- column index helpers
IDX_TIMESTAMP == 2
IDX_FILEPATH == 4
IDX_BOOTH == 6
IDX_CAMERA == 7
\* Python r[i] on a 1-based TLA+ sequence
Field(r, i) == r[i + 1]

\* ------------------------------------------------------------- fallback data
DUMMY_VIDEOS ==
    << <<"1", "Booth A1 Entry",    "2025-07-21 09:45:00", "00:25", "videos/booth_a1.mp4",     "thumbnails/booth_a1.jpg", "A1", "001">>,
       <<"2", "Highway Toll",      "2025-07-20 14:30:00", "00:30", "videos/highway.mp4",      "thumbnails/highway.jpg",  "A2", "002">>,
       <<"3", "Parking Lot Sweep", "2025-07-19 11:00:00", "01:10", "videos/parking.mp4",      "thumbnails/parking.jpg",  "A1", "001">>,
       <<"4", "Night Patrol",      "2025-07-18 22:05:00", "00:40", "videos/night_patrol.mp4", "thumbnails/night.jpg",    "A2", "002">> >>

\* ---------------------------------------------------------- row normalisation
\* a plausible slip: the 6-column defaults appended in the wrong order
CoerceRow_swapped(r) ==
    IF Len(r) >= 8 THEN Take(r, 8)
    ELSE IF Len(r) = 6 THEN r \o <<"001", "A1">>
    ELSE Take(r \o Repeat("?", 8 - Len(r)), 8)

\* a plausible slip: a wide row passed through without the [:8] cut
CoerceRow_uncut(r) ==
    IF Len(r) >= 8 THEN r
    ELSE IF Len(r) = 6 THEN r \o <<"A1", "001">>
    ELSE Take(r \o Repeat("?", 8 - Len(r)), 8)

\* a plausible slip: the pad computed against 7 columns, not 8
CoerceRow_shortpad(r) ==
    IF Len(r) >= 8 THEN Take(r, 8)
    ELSE IF Len(r) = 6 THEN r \o <<"A1", "001">>
    ELSE Take(r \o Repeat("?", 7 - Len(r)), 8)

\* the body of the loop of _coerce_rows_to_8cols, for one row r
CoerceRow(r) ==
    IF Len(r) >= 8 THEN Take(r, 8)
    ELSE IF Len(r) = 6 THEN r \o <<"A1", "001">>
    ELSE Take(r \o Repeat("?", 8 - Len(r)), 8)

coerce_rows_to_8cols(rows) == [i \in 1..Len(rows) |-> CoerceRow(rows[i])]

\* ------------------------------------------------------------------ DB access
\* fetch_videos_from_db against the file d at DB_PATH: the rows it returns, or
\* the exception that leaves it.  sqlite3.connect is called outside the try.
fetch_videos_from_db(d) ==
    IF ~d.exists THEN [raised |-> FALSE, rows |-> <<>>]
    ELSE IF ~d.connects THEN [raised |-> TRUE, rows |-> <<>>]
    ELSE IF ~d.query_ok THEN [raised |-> FALSE, rows |-> <<>>]
    ELSE [raised |-> FALSE, rows |-> d.rows]

\* a plausible slip: the fallback records appended to the database rows
load_video_data_mixed(d) ==
    LET f == fetch_videos_from_db(d)
    IN  IF f.raised THEN [raised |-> TRUE, value |-> <<>>]
        ELSE [raised |-> FALSE, value |-> coerce_rows_to_8cols(f.rows) \o DUMMY_VIDEOS]

load_video_data(d) ==
    LET f == fetch_videos_from_db(d)
    IN  IF f.raised THEN [raised |-> TRUE, value |-> <<>>]
        ELSE IF f.rows # <<>>
             THEN [raised |-> FALSE, value |-> coerce_rows_to_8cols(f.rows)]
             ELSE [raised |-> FALSE, value |-> DUMMY_VIDEOS]

\* ------------------------------------------------------------- timestamps
\* datetime.datetime.min, as <<year, month, day, hour, minute, second>>
datetime_min == <<1, 1, 1, 0, 0, 0>>

\* parse_timestamp: strptime(ts_str, "%Y-%m-%d %H:%M:%S"), None (here <<>>) on
\* any failure.  The strings of the model, each with what strptime makes of it.
parse_timestamp(ts_str) ==
    CASE ts_str = "2024-07-19 10:00:00" -> <<2024, 7, 19, 10, 0, 0>>
      [] ts_str = "2024-07-20 09:00:00" -> <<2024, 7, 20, 9, 0, 0>>
      [] ts_str = "0001-01-01 00:00:00" -> <<1, 1, 1, 0, 0, 0>>
      [] ts_str = "2025-07-21 09:45:00" -> <<2025, 7, 21, 9, 45, 0>>
      [] ts_str = "2025-07-20 14:30:00" -> <<2025, 7, 20, 14, 30, 0>>
      [] ts_str = "2025-07-19 11:00:00" -> <<2025, 7, 19, 11, 0, 0>>
      [] ts_str = "2025-07-18 22:05:00" -> <<2025, 7, 18, 22, 5, 0>>
      [] OTHER -> <<>>   \* "bad", "2024-07-20" (no time), "", "?", any non-date

\* ts.split(" ")[0]
date_part(ts) ==
    CASE ts = "2024-07-19 10:00:00" -> "2024-07-19"
      [] ts = "2024-07-20 09:00:00" -> "2024-07-20"
      [] ts = "0001-01-01 00:00:00" -> "0001-01-01"
      [] ts = "2025-07-21 09:45:00" -> "2025-07-21"
      [] ts = "2025-07-20 14:30:00" -> "2025-07-20"
      [] ts = "2025-07-19 11:00:00" -> "2025-07-19"
      [] ts = "2025-07-18 22:05:00" -> "2025-07-18"
      [] OTHER -> ts     \* no blank in the string: the whole string

\* datetime's < : lexicographic on the six fields
RECURSIVE LessFrom(_, _, _)
LessFrom(a, b, k) ==
    IF k > Len(a) THEN FALSE
    ELSE IF a[k] # b[k] THEN a[k] < b[k]
    ELSE LessFrom(a, b, k + 1)
DtLess(a, b) == LessFrom(a, b, 1)

\* the sort key: parse_timestamp(r[IDX_TIMESTAMP]) or datetime.datetime.min
SortKey(r) ==
    LET t == parse_timestamp(Field(r, IDX_TIMESTAMP))
    IN  IF t = <<>> THEN datetime_min ELSE t

\* ------------------------------------------------------------------- sorting
\* sorted() is stable, also under reverse=True: x goes after every element
\* already placed that does not come strictly after it.
SortedInsert(s, x, latest_first) ==
    LET stays == {i \in 1..Len(s) :
                    IF latest_first THEN ~DtLess(SortKey(s[i]), SortKey(x))
                                    ELSE ~DtLess(SortKey(x), SortKey(s[i]))}
        p == Cardinality(stays)
    IN  SubSeq(s, 1, p) \o <<x>> \o SubSeq(s, p + 1, Len(s))

RECURSIVE SortPrefix(_, _, _)
SortPrefix(rows, n, latest_first) ==
    IF n = 0 THEN <<>>
    ELSE SortedInsert(SortPrefix(rows, n - 1, latest_first), rows[n], latest_first)

\* a plausible slip: the reverse flag dropped, always oldest first
sort_videos_noreverse(rows, latest_first) == SortPrefix(rows, Len(rows), FALSE)

sort_videos(rows, latest_first) == SortPrefix(rows, Len(rows), latest_first)

\* ----------------------------------------------------------------- filtering
\* get_unique_date_strings / get_unique_booths / get_unique_cameras, as the set
\* of choices (the order of a dropdown's entries decides nothing)
get_unique_date_strings(rows) ==
    {date_part(Field(r, IDX_TIMESTAMP)) : r \in Range(rows)} \ {""}
get_unique_booths(rows) == {Field(r, IDX_BOOTH) : r \in Range(rows)}
get_unique_cameras(rows) == {Field(r, IDX_CAMERA) : r \in Range(rows)}

\* a plausible slip: the camera axis tested against the booth axis's sentinel
RowOk_sentinel(r, date_sel, booth_sel, cam_sel) ==
    /\ (date_sel # "Any") => (date_part(Field(r, IDX_TIMESTAMP)) = date_sel)
    /\ (booth_sel # "All") => (Field(r, IDX_BOOTH) = booth_sel)
    /\ (cam_sel # "All") => (Field(r, IDX_CAMERA) = cam_sel)

\* a plausible slip: the booth selection compared with the camera column
RowOk_wrongcol(r, date_sel, booth_sel, cam_sel) ==
    /\ (date_sel # "Any") => (date_part(Field(r, IDX_TIMESTAMP)) = date_sel)
    /\ (booth_sel # "All") => (Field(r, IDX_CAMERA) = booth_sel)
    /\ (cam_sel # "Any") => (Field(r, IDX_CAMERA) = cam_sel)

\* the value of ok for record r at the end of the loop body of apply_filters
RowOk(r, date_sel, booth_sel, cam_sel) ==
    /\ (date_sel # "Any") => (date_part(Field(r, IDX_TIMESTAMP)) = date_sel)
    /\ (booth_sel # "All") => (Field(r, IDX_BOOTH) = booth_sel)
    /\ (cam_sel # "Any") => (Field(r, IDX_CAMERA) = cam_sel)

\* the list `filtered` before it is sorted
FilterRows(all, date_sel, booth_sel, cam_sel) ==
    SelectSeq(all, LAMBDA r : RowOk(r, date_sel, booth_sel, cam_sel))

\* apply_filters: the list handed to render_video_grid
apply_filters(all, date_sel, booth_sel, cam_sel, sort_sel) ==
    sort_videos(FilterRows(all, date_sel, booth_sel, cam_sel),
                sort_sel = "Latest First")

\* ------------------------------------------------- the bounded environment
\* Records the videos table may hold, in id order, each written out to ten
\* columns; a table of w columns holds the first w fields of its records.
BaseRows ==
    << <<"11", "Audit Footage 1", "2024-07-19 10:00:00", "00:15", "videos/video1.mp4", "thumbnails/thumb1.png", "A1", "001", "x", "y">>,
       <<"12", "Audit Footage 2", "2024-07-20 09:00:00", "00:30", "videos/video2.mp4", "thumbnails/thumb2.png", "A2", "002", "x", "y">>,
       <<"13", "Audit Footage 3", "bad",                 "00:20", "videos/video3.mp4", "thumbnails/thumb3.png", "",   "001", "x", "y">>,
       <<"14", "Audit Footage 4", "0001-01-01 00:00:00", "00:45", "videos/video4.mp4", "thumbnails/thumb4.png", "A1", "002", "x", "y">>,
       <<"15", "Audit Footage 5", "2024-07-20",          "00:05", "videos/video5.mp4", "thumbnails/thumb5.png", "A2", "001", "x", "y">> >>

\* the strictly increasing index lists of at most MaxRows base records
RECURSIVE IndexLists(_)
IndexLists(n) ==
    IF n = 0 THEN {<<>>}
    ELSE LET shorter == IndexLists(n - 1)
         IN  shorter \cup
             {Append(s, i) : s \in {t \in shorter : Len(t) = n - 1},
                             i \in 1..Len(BaseRows)}
IncreasingLists ==
    {s \in IndexLists(MaxRows) : \A k \in 1..(Len(s) - 1) : s[k] < s[k + 1]}

\* what SELECT * FROM videos ORDER BY id returns from a table of w columns
\* holding the base records idx
TableRows(idx, w) == [k \in 1..Len(idx) |-> Take(BaseRows[idx[k]], w)]

\* the files DB_PATH may name
DbFiles ==
    {[exists |-> FALSE, connects |-> FALSE, query_ok |-> FALSE, rows |-> <<>>],
     \* a directory, or a file the process may not read
     [exists |-> TRUE, connects |-> FALSE, query_ok |-> FALSE, rows |-> <<>>],
     \* not a database, or a database without a videos table
     [exists |-> TRUE, connects |-> TRUE, query_ok |-> FALSE, rows |-> <<>>]}
    \cup {[exists |-> TRUE, connects |-> TRUE, query_ok |-> TRUE,
           rows |-> TableRows(idx, w)] : idx \in IncreasingLists, w \in 1..MaxCols}

\* rows of any width from 0 to MaxCols, for the pure-function harness
PurePool == {Take(BaseRows[i], w) : i \in 1..4, w \in 0..MaxCols}
RECURSIVE ListsOver(_, _)
ListsOver(S, n) ==
    IF n = 0 THEN {<<>>}
    ELSE LET shorter == ListsOver(S, n - 1)
         IN  shorter \cup
             {Append(s, x) : s \in {t \in shorter : Len(t) = n - 1}, x \in S}

\* --------------------------------------------------------- initial conditions
\* OpenCVEmbeddedPlayer.__init__, the widgets as created, no dialog shown
PlayerInit ==
    /\ cap = "None"
    /\ cap_pos = 0
    /\ playing = FALSE
    /\ video_path = "None"
    /\ fps_delay = 33
    /\ total_frames = 0
    /\ current_frame_index = 0
    /\ speed_factor = 10
    /\ after_id = "None"
    /\ timers = 0
    /\ buttons = "disabled"
    /\ scale_to = 1
    /\ scale_val = 0
    /\ dialog = "None"
    /\ after_delay = -1
    /\ open_caps = 0
    /\ last = [op |-> "init", path |-> "None", num |-> 0, user |-> 0,
               pre |-> [cap |-> "None", cap_pos |-> 0, playing |-> FALSE,
                        total_frames |-> 0, current_frame_index |-> 0]]

\* the module-level state before ALL_VIDEOS = load_video_data() runs: the
\* comboboxes as created, nothing loaded or rendered
DataBoot(d) ==
    /\ db = d
    /\ phase = "boot"
    /\ fetched = [raised |-> FALSE, rows |-> <<>>]
    /\ ALL_VIDEOS = <<>>
    /\ date_combo = "Any"
    /\ booth_combo = "All"
    /\ camera_combo = "Any"
    /\ sort_combo = "Latest First"
    /\ rendered = <<>>
    /\ selected_video = ""

PureBoot(rows) ==
    /\ in_rows = rows
    /\ out_rows = <<>>
    /\ sorted_rows = <<>>
    /\ pstep = "input"

\* ------------------------------------------------- pure-function harness
ApplyCoerce ==
    /\ pstep = "input"
    /\ out_rows' = coerce_rows_to_8cols(in_rows)
    /\ pstep' = "coerced"
    /\ UNCHANGED <<in_rows, sorted_rows, playerVars, dataVars>>

ApplySort(latest_first) ==
    /\ pstep = "coerced"
    /\ sorted_rows' = sort_videos(out_rows, latest_first)
    /\ pstep' = IF latest_first THEN "sorted_latest" ELSE "sorted_oldest"
    /\ UNCHANGED <<in_rows, out_rows, playerVars, dataVars>>

InitPure ==
    /\ PlayerInit
    /\ DataBoot([exists |-> FALSE, connects |-> FALSE, query_ok |-> FALSE, rows |-> <<>>])
    /\ \E rows \in ListsOver(PurePool, MaxPureLen) : PureBoot(rows)

NextPure ==
    \/ ApplyCoerce
    \/ \E latest_first \in BOOLEAN : ApplySort(latest_first)

SpecPure == InitPure /\ [][NextPure]_vars

\* a plausible slip: apply_filters sorting the module-level list where it is
videos_after_apply_filters_inplace(all, sort_choice) ==
    sort_videos(all, sort_choice = "Latest First")

\* what ALL_VIDEOS holds when apply_filters returns: the loop only reads it,
\* `filtered` is a list of its own and sort_videos returns sorted()'s new list
videos_after_apply_filters(all, sort_choice) == all

\* ------------------------------------------------------ data layer, actions
\* main.py lines 644-710: ALL_VIDEOS = load_video_data(), the dropdown choices
\* filled from it, then the initial apply_filters().  An exception leaving
\* load_video_data ends the script before any widget is shown.
Startup ==
    /\ phase = "boot"
    /\ fetched' = fetch_videos_from_db(db)
    /\ LET res == load_video_data(db)
       IN  IF res.raised
           THEN /\ phase' = "crashed"
                /\ UNCHANGED <<ALL_VIDEOS, rendered>>
           ELSE /\ phase' = "running"
                /\ ALL_VIDEOS' = res.value
                /\ rendered' = apply_filters(res.value, date_combo, booth_combo,
                                             camera_combo, sort_combo)
    /\ UNCHANGED <<db, date_combo, booth_combo, camera_combo, sort_combo,
                   selected_video, playerVars, pureVars>>

\* <<ComboboxSelected>> on the date dropdown: a choice is taken, apply_filters runs
SelectDate(v) ==
    /\ phase = "running"
    /\ v \in {"Any"} \cup get_unique_date_strings(ALL_VIDEOS)
    /\ date_combo' = v
    /\ rendered' = apply_filters(ALL_VIDEOS, v, booth_combo, camera_combo, sort_combo)
    /\ ALL_VIDEOS' = videos_after_apply_filters(ALL_VIDEOS, sort_combo)
    /\ UNCHANGED <<db, phase, fetched, selected_video, booth_combo, camera_combo,
                   sort_combo, playerVars, pureVars>>

SelectBooth(v) ==
    /\ phase = "running"
    /\ v \in {"All"} \cup get_unique_booths(ALL_VIDEOS)
    /\ booth_combo' = v
    /\ rendered' = apply_filters(ALL_VIDEOS, date_combo, v, camera_combo, sort_combo)
    /\ ALL_VIDEOS' = videos_after_apply_filters(ALL_VIDEOS, sort_combo)
    /\ UNCHANGED <<db, phase, fetched, selected_video, date_combo, camera_combo,
                   sort_combo, playerVars, pureVars>>

SelectCamera(v) ==
    /\ phase = "running"
    /\ v \in {"Any"} \cup get_unique_cameras(ALL_VIDEOS)
    /\ camera_combo' = v
    /\ rendered' = apply_filters(ALL_VIDEOS, date_combo, booth_combo, v, sort_combo)
    /\ ALL_VIDEOS' = videos_after_apply_filters(ALL_VIDEOS, sort_combo)
    /\ UNCHANGED <<db, phase, fetched, selected_video, date_combo, booth_combo,
                   sort_combo, playerVars, pureVars>>

SelectSort(v) ==
    /\ phase = "running"
    /\ v \in {"Latest First", "Oldest First"}
    /\ sort_combo' = v
    /\ rendered' = apply_filters(ALL_VIDEOS, date_combo, booth_combo, camera_combo, v)
    /\ ALL_VIDEOS' = videos_after_apply_filters(ALL_VIDEOS, v)
    /\ UNCHANGED <<db, phase, fetched, selected_video, date_combo, booth_combo,
                   camera_combo, playerVars, pureVars>>

\* the Reset button
reset_filters ==
    /\ phase = "running"
    /\ date_combo' = "Any"
    /\ booth_combo' = "All"
    /\ camera_combo' = "Any"
    /\ rendered' = apply_filters(ALL_VIDEOS, "Any", "All", "Any", sort_combo)
    /\ ALL_VIDEOS' = videos_after_apply_filters(ALL_VIDEOS, sort_combo)
    /\ UNCHANGED <<db, phase, fetched, selected_video, sort_combo, playerVars, pureVars>>

\* the Apply button
ApplyClicked ==
    /\ phase = "running"
    /\ rendered' = apply_filters(ALL_VIDEOS, date_combo, booth_combo,
                                 camera_combo, sort_combo)
    /\ ALL_VIDEOS' = videos_after_apply_filters(ALL_VIDEOS, sort_combo)
    /\ UNCHANGED <<db, phase, fetched, selected_video, date_combo, booth_combo,
                   camera_combo, sort_combo, playerVars, pureVars>>

InitData ==
    /\ PlayerInit
    /\ PureBoot(<<>>)
    /\ \E d \in DbFiles : DataBoot(d)

NextData ==
    \/ Startup
    \/ \E v \in {"Any"} \cup get_unique_date_strings(ALL_VIDEOS) : SelectDate(v)
    \/ \E v \in {"All"} \cup get_unique_booths(ALL_VIDEOS) : SelectBooth(v)
    \/ \E v \in {"Any"} \cup get_unique_cameras(ALL_VIDEOS) : SelectCamera(v)
    \/ \E v \in {"Latest First", "Oldest First"} : SelectSort(v)
    \/ reset_filters
    \/ ApplyClicked

SpecData == InitData /\ [][NextData]_vars

\* ====================================================================
\* The embedded player
\* ====================================================================
\* The files a record's filepath may name, with what os.path.exists and
\* cv2.VideoCapture report of each.
Paths == {"videos/missing.mp4", "videos/corrupt.mp4",
          "videos/booth_a1.mp4", "videos/highway.mp4",
          "videos/parking.mp4", "videos/night_patrol.mp4", "videos/video1.mp4"}
\* frames the header of booth_a1.mp4 / highway.mp4 states, all delivered
FramesA == 5
FramesB == 3
\* frames the header of parking.mp4 states; the stream delivers one more
FramesC == 4
\* frames night_patrol.mp4 delivers; its container states no frame count
FramesD == 2
\* frames the header of video1.mp4 states; the file is cut one frame short
FramesE == 3
\* os.path.exists(path)
FileExists(path) == path \in {"videos/corrupt.mp4", "videos/booth_a1.mp4",
                              "videos/highway.mp4", "videos/parking.mp4",
                              "videos/night_patrol.mp4", "videos/video1.mp4"}
\* cap.isOpened()
FileOpens(path) == path \in {"videos/booth_a1.mp4", "videos/highway.mp4",
                             "videos/parking.mp4", "videos/night_patrol.mp4",
                             "videos/video1.mp4"}
\* cap.get(cv2.CAP_PROP_FPS); 0 where the container states none
FileFps(path) ==
    CASE path = "videos/booth_a1.mp4" -> 25
      [] path = "videos/parking.mp4" -> 1
      [] path = "videos/night_patrol.mp4" -> 30
      [] path = "videos/video1.mp4" -> 30
      [] OTHER -> 0
\* cap.get(cv2.CAP_PROP_FRAME_COUNT); 0 where the container states none
FileFrameCount(path) ==
    CASE path = "videos/booth_a1.mp4" -> FramesA
      [] path = "videos/highway.mp4" -> FramesB
      [] path = "videos/parking.mp4" -> FramesC
      [] path = "videos/video1.mp4" -> FramesE
      [] OTHER -> 0
\* the frames cap.read() delivers before it reports end of stream
FileFrames(path) ==
    CASE path = "videos/parking.mp4" -> FramesC + 1
      [] path = "videos/night_patrol.mp4" -> FramesD
      [] path = "videos/video1.mp4" -> FramesE - 1
      [] OTHER -> FileFrameCount(path)

\* the player's fields and the widgets it drives, as one record
Cur ==
    [cap |-> cap, cap_pos |-> cap_pos, playing |-> playing,
     video_path |-> video_path, fps_delay |-> fps_delay,
     total_frames |-> total_frames, current_frame_index |-> current_frame_index,
     speed_factor |-> speed_factor, after_id |-> after_id, timers |-> timers,
     buttons |-> buttons, scale_to |-> scale_to, scale_val |-> scale_val,
     dialog |-> dialog, after_delay |-> after_delay, open_caps |-> open_caps]

\* a handler starts with no dialog on screen and nothing scheduled by it
Entry == [Cur EXCEPT !.dialog = "None", !.after_delay = -1]

Becomes(p) ==
    /\ cap' = p.cap
    /\ cap_pos' = p.cap_pos
    /\ playing' = p.playing
    /\ video_path' = p.video_path
    /\ fps_delay' = p.fps_delay
    /\ total_frames' = p.total_frames
    /\ current_frame_index' = p.current_frame_index
    /\ speed_factor' = p.speed_factor
    /\ after_id' = p.after_id
    /\ timers' = p.timers
    /\ buttons' = p.buttons
    /\ scale_to' = p.scale_to
    /\ scale_val' = p.scale_val
    /\ dialog' = p.dialog
    /\ after_delay' = p.after_delay
    /\ open_caps' = p.open_caps

\* delay = max(1, int(self.fps_delay / self.speed_factor)), speed in tenths
frame_delay(p) == Max(1, (p.fps_delay * 10) \div p.speed_factor)

\* _schedule_next_frame: label.after(delay, self._next_frame)
schedule_next_frame(p) ==
    IF ~p.playing \/ p.cap = "None" THEN p
    ELSE [p EXCEPT !.after_id = "pending", !.timers = p.timers + 1,
                   !.after_delay = frame_delay(p)]

play(p) ==
    IF p.cap = "None" \/ p.playing THEN p
    ELSE schedule_next_frame([p EXCEPT !.playing = TRUE])

\* a plausible slip: the pending callback left in the queue
pause_nocancel(p) == [p EXCEPT !.playing = FALSE]

\* after_cancel of an id whose callback already ran does nothing
pause(p) ==
    [p EXCEPT !.playing = FALSE,
              !.timers = IF p.after_id = "pending" THEN p.timers - 1 ELSE p.timers,
              !.after_id = "None"]

\* a plausible slip: the transport buttons left enabled
stop_buttons_left(p) ==
    [pause(p) EXCEPT !.cap = "None",
                     !.open_caps = IF p.cap # "None" THEN p.open_caps - 1
                                                     ELSE p.open_caps,
                     !.cap_pos = 0,
                     !.scale_val = 0,
                     !.current_frame_index = 0,
                     !.total_frames = 0]

\* a plausible slip: current_frame_index not reset
stop_index_left(p) ==
    [pause(p) EXCEPT !.cap = "None",
                     !.open_caps = IF p.cap # "None" THEN p.open_caps - 1
                                                     ELSE p.open_caps,
                     !.cap_pos = 0,
                     !.scale_val = 0,
                     !.total_frames = 0,
                     !.buttons = "disabled"]

\* a plausible slip: the new file opened without stop() first
load_nostop(p, path) ==
    LET q == p
    IN  IF ~FileExists(path) THEN [q EXCEPT !.dialog = "Video not found"]
        ELSE IF ~FileOpens(path) THEN [q EXCEPT !.dialog = "Cannot open video"]
        ELSE play([q EXCEPT
                 !.cap = path,
                 !.open_caps = q.open_caps + 1,
                 !.cap_pos = 0,
                 !.video_path = path,
                 !.fps_delay = IF FileFps(path) > 1 THEN 1000 \div FileFps(path) ELSE 33,
                 !.total_frames = FileFrameCount(path),
                 !.current_frame_index = 0,
                 !.scale_to = IF FileFrameCount(path) # 0 THEN FileFrameCount(path) ELSE 1,
                 !.scale_val = 0,
                 !.buttons = "normal"])

stop(p) ==
    [pause(p) EXCEPT !.cap = "None",
                     !.open_caps = IF p.cap # "None" THEN p.open_caps - 1
                                                     ELSE p.open_caps,
                     !.cap_pos = 0,
                     !.scale_val = 0,
                     !.current_frame_index = 0,
                     !.total_frames = 0,
                     !.buttons = "disabled"]

load(p, path) ==
    LET q == stop(p)
    IN  IF ~FileExists(path) THEN [q EXCEPT !.dialog = "Video not found"]
        ELSE IF ~FileOpens(path) THEN [q EXCEPT !.dialog = "Cannot open video"]
        ELSE play([q EXCEPT
                 !.cap = path,
                 !.open_caps = q.open_caps + 1,
                 !.cap_pos = 0,
                 !.video_path = path,
                 !.fps_delay = IF FileFps(path) > 1 THEN 1000 \div FileFps(path) ELSE 33,
                 !.total_frames = FileFrameCount(path),
                 !.current_frame_index = 0,
                 !.scale_to = IF FileFrameCount(path) # 0 THEN FileFrameCount(path) ELSE 1,
                 !.scale_val = 0,
                 !.buttons = "normal"])

\* update_progress, the player's on_frame_callback: the slider follows the
\* frame index (the time label and the timeline thumb only display it)
update_progress(p, frame_index) ==
    IF p.cap = "None" THEN p ELSE [p EXCEPT !.scale_val = frame_index]

seek(p, frame_index, show_frame) ==
    IF p.cap # "None" /\ 0 <= frame_index /\ frame_index < p.total_frames
    THEN LET q == [p EXCEPT !.cap_pos = frame_index,
                            !.current_frame_index = frame_index]
         IN  IF show_frame /\ q.cap_pos < FileFrames(q.cap)
             THEN update_progress([q EXCEPT !.cap_pos = frame_index + 1,
                                            !.current_frame_index = frame_index + 1],
                                  frame_index + 1)
             ELSE q
    ELSE p

\* a plausible slip: the factor stored as given, without the 0.1 floor
set_speed_unfloored(p, factor) == [p EXCEPT !.speed_factor = factor]

\* speed_factor = max(0.1, float(factor)), in tenths
set_speed(p, factor) == [p EXCEPT !.speed_factor = Max(1, factor)]

\* a plausible slip: the stream rewound and kept playing at its end
next_frame_loops(p) ==
    IF ~p.playing \/ p.cap = "None" THEN p
    ELSE IF p.cap_pos < FileFrames(p.cap)
         THEN schedule_next_frame(update_progress(
                  [p EXCEPT !.cap_pos = p.cap_pos + 1,
                            !.current_frame_index = p.current_frame_index + 1],
                  p.current_frame_index + 1))
         ELSE schedule_next_frame([p EXCEPT !.cap_pos = 0,
                                            !.current_frame_index = 0])

\* a plausible slip: the index counted before `ret` is looked at
next_frame_counts_failed_read(p) ==
    IF ~p.playing \/ p.cap = "None" THEN p
    ELSE IF p.cap_pos < FileFrames(p.cap)
         THEN schedule_next_frame(update_progress(
                  [p EXCEPT !.cap_pos = p.cap_pos + 1,
                            !.current_frame_index = p.current_frame_index + 1],
                  p.current_frame_index + 1))
         ELSE [p EXCEPT !.playing = FALSE,
                        !.current_frame_index = p.current_frame_index + 1]

\* the body of the timer callback
next_frame(p) ==
    IF ~p.playing \/ p.cap = "None" THEN p
    ELSE IF p.cap_pos < FileFrames(p.cap)
         THEN schedule_next_frame(
                  update_progress([p EXCEPT !.cap_pos = p.cap_pos + 1,
                                            !.current_frame_index = p.current_frame_index + 1],
                                  p.current_frame_index + 1))
         ELSE [p EXCEPT !.playing = FALSE]

\* a plausible slip: the target handed to seek() without the clamp
ui_seek_to_frame_unclamped(p, frame_target, resume) ==
    IF p.cap = "None" \/ p.total_frames = 0 THEN p
    ELSE LET q == seek(pause(p), frame_target, TRUE)
         IN  IF resume /\ p.playing THEN play(q) ELSE q

ui_seek_to_frame(p, frame_target, resume) ==
    IF p.cap = "None" \/ p.total_frames = 0 THEN p
    ELSE LET target == Max(0, Min(p.total_frames - 1, frame_target))
             q == seek(pause(p), target, TRUE)
         IN  IF resume /\ p.playing THEN play(q) ELSE q

on_seek(p, val) ==
    IF p.cap # "None" /\ p.total_frames # 0 THEN ui_seek_to_frame(p, val, TRUE) ELSE p

JUMP_SECONDS == 5
\* fps = cap.get(CAP_PROP_FPS) or 30; frame_jump = int(seconds * fps)
seek_relative(p, seconds) ==
    IF p.cap = "None" THEN p
    ELSE LET fps == IF FileFps(p.cap) # 0 THEN FileFps(p.cap) ELSE 30
         IN  ui_seek_to_frame(p, p.current_frame_index + seconds * fps, TRUE)

\* the scrollbar's 'moveto' with a fraction that int() maps to frame_target
on_timeline_moveto(p, frame_target) ==
    IF p.cap = "None" \/ p.total_frames = 0 THEN p
    ELSE ui_seek_to_frame(p, frame_target, FALSE)

\* a plausible slip: the timeline seeking with resume left at its default
on_timeline_scroll_resumes(p, count, what) ==
    IF p.cap = "None" \/ p.total_frames = 0 THEN p
    ELSE ui_seek_to_frame(p, p.current_frame_index
                               + count * (IF what = "pages" THEN 100 ELSE 10), TRUE)

\* the scrollbar's 'scroll' by count units (10 frames) or pages (100 frames)
on_timeline_scroll(p, count, what) ==
    IF p.cap = "None" \/ p.total_frames = 0 THEN p
    ELSE ui_seek_to_frame(p, p.current_frame_index
                               + count * (IF what = "pages" THEN 100 ELSE 10), FALSE)

\* ----------------------------------------------------------- player actions
\* what the history keeps of the player a handler started from
Before ==
    [cap |-> cap, cap_pos |-> cap_pos, playing |-> playing,
     total_frames |-> total_frames, current_frame_index |-> current_frame_index]

\* a user operation op(path, num) ran and left the player as q
UserDoes(op, path, num, q) ==
    /\ Becomes(q)
    /\ last' = [op |-> op, path |-> path, num |-> num, user |-> 1 - last.user,
                pre |-> Before]

\* on_video_click(row): player.load(row's filepath)
LoadVideo(path) ==
    /\ selected_video' = path
    /\ UserDoes("load", path, 0, load(Entry, path))
    /\ UNCHANGED <<db, phase, fetched, ALL_VIDEOS, date_combo, booth_combo,
                   camera_combo, sort_combo, rendered, pureVars>>

\* the transport buttons invoke their commands only while enabled
play_clicked ==
    /\ buttons = "normal"
    /\ UserDoes("play", "None", 0, play(Entry))
    /\ UNCHANGED <<dataVars, pureVars>>

pause_clicked ==
    /\ buttons = "normal"
    /\ UserDoes("pause", "None", 0, pause(Entry))
    /\ UNCHANGED <<dataVars, pureVars>>

stop_clicked ==
    /\ buttons = "normal"
    /\ UserDoes("stop", "None", 0, stop(Entry))
    /\ UNCHANGED <<dataVars, pureVars>>

\* the 0.5x / 1x / 2x buttons
SpeedClicked(factor) ==
    /\ buttons = "normal"
    /\ UserDoes("set_speed", "None", factor, set_speed(Entry, factor))
    /\ UNCHANGED <<dataVars, pureVars>>

\* the << and >> buttons
JumpClicked(seconds) ==
    /\ buttons = "normal"
    /\ UserDoes("seek_relative", "None", seconds, seek_relative(Entry, seconds))
    /\ UNCHANGED <<dataVars, pureVars>>

\* on_scale_release: the slider was dragged to val and released
ScaleReleased(val) ==
    /\ val \in 0..scale_to
    /\ UserDoes("on_seek", "None", val,
                on_seek([Entry EXCEPT !.scale_val = val], val))
    /\ UNCHANGED <<dataVars, pureVars>>

TimelineMoveto(frame_target) ==
    /\ UserDoes("on_timeline_scroll", "moveto", frame_target,
                on_timeline_moveto(Entry, frame_target))
    /\ UNCHANGED <<dataVars, pureVars>>

TimelineScroll(count, what) ==
    /\ UserDoes("on_timeline_scroll", what, count,
                on_timeline_scroll(Entry, count, what))
    /\ UNCHANGED <<dataVars, pureVars>>

\* the event loop runs a queued _next_frame callback: the one _after_id names
\* (named), or one whose id the player no longer holds
TimerFires ==
    /\ timers > 0
    /\ \E named \in BOOLEAN :
          /\ named => after_id = "pending"
          /\ ~named => timers > (IF after_id = "pending" THEN 1 ELSE 0)
          /\ Becomes(next_frame([Entry EXCEPT
                 !.timers = timers - 1,
                 !.after_id = IF named THEN "fired" ELSE after_id]))
    /\ last' = [op |-> "_next_frame", path |-> "None", num |-> 0,
                user |-> last.user, pre |-> Before]
    /\ UNCHANGED <<dataVars, pureVars>>

Init ==
    /\ PlayerInit
    /\ DataBoot([exists |-> FALSE, connects |-> FALSE, query_ok |-> FALSE, rows |-> <<>>])
    /\ PureBoot(<<>>)

Next ==
    \/ \E path \in Paths : LoadVideo(path)
    \/ play_clicked
    \/ pause_clicked
    \/ stop_clicked
    \/ \E factor \in {5, 10, 20} : SpeedClicked(factor)
    \/ \E seconds \in {-JUMP_SECONDS, JUMP_SECONDS} : JumpClicked(seconds)
    \/ \E val \in 0..scale_to : ScaleReleased(val)
    \/ \E frame_target \in 0..(total_frames - 1) : TimelineMoveto(frame_target)
    \/ \E count \in {-1, 1}, what \in {"units", "pages"} : TimelineScroll(count, what)
    \/ TimerFires

Spec == Init /\ [][Next]_vars

\* Playback left to run: videos are loaded, played, paused and stopped, and
\* Tk's event loop runs every callback label.after queued once its delay is over
NextLive ==
    \/ \E path \in Paths : LoadVideo(path)
    \/ play_clicked
    \/ pause_clicked
    \/ stop_clicked
    \/ TimerFires

SpecLive == Init /\ [][NextLive]_vars /\ WF_vars(TimerFires)

\* ====================================================================
\* The player's methods called by any client, besides the window's controls
\* ====================================================================
\* the frame indices a client hands to seek()
MaxFrameIndex == 6
SeekInputs == (-1)..MaxFrameIndex
\* the factors a client hands to set_speed(), in tenths: negative, zero,
\* 0.1x, the three buttons' factors, and 50x
SpeedInputs == {-10, 0, 1, 5, 10, 20, 500}

PlayerPlay ==
    /\ UserDoes("play", "None", 0, play(Entry))
    /\ UNCHANGED <<dataVars, pureVars>>

PlayerPause ==
    /\ UserDoes("pause", "None", 0, pause(Entry))
    /\ UNCHANGED <<dataVars, pureVars>>

PlayerStop ==
    /\ UserDoes("stop", "None", 0, stop(Entry))
    /\ UNCHANGED <<dataVars, pureVars>>

PlayerSeek(frame_index, show_frame) ==
    /\ UserDoes("seek", IF show_frame THEN "show_frame" ELSE "None", frame_index,
                seek(Entry, frame_index, show_frame))
    /\ UNCHANGED <<dataVars, pureVars>>

PlayerSetSpeed(factor) ==
    /\ UserDoes("set_speed", "None", factor, set_speed(Entry, factor))
    /\ UNCHANGED <<dataVars, pureVars>>

NextApi ==
    \/ Next
    \/ PlayerPlay
    \/ PlayerPause
    \/ PlayerStop
    \/ \E frame_index \in SeekInputs, show_frame \in BOOLEAN :
          PlayerSeek(frame_index, show_frame)
    \/ \E factor \in SpeedInputs : PlayerSetSpeed(factor)

SpecApi == Init /\ [][NextApi]_vars

\* ====================================================================
\* The whole window: the list, its filters, the info panel and playback
\* ====================================================================
\* a Preview button of the rendered grid: command=lambda v=vid: on_video_click(v)
on_video_click(video_row) ==
    /\ phase = "running"
    /\ LoadVideo(Field(video_row, IDX_FILEPATH))

\* the Accept button
accept_video ==
    /\ phase = "running"
    /\ dialog' = IF selected_video # "" THEN "Video accepted" ELSE "None"
    /\ UNCHANGED <<cap, cap_pos, playing, video_path, fps_delay, total_frames,
                   current_frame_index, speed_factor, after_id, timers, buttons,
                   scale_to, scale_val, after_delay, open_caps, last,
                   dataVars, pureVars>>

\* the Reject button
reject_video ==
    /\ phase = "running"
    /\ dialog' = IF selected_video # "" THEN "Video rejected" ELSE "None"
    /\ UNCHANGED <<cap, cap_pos, playing, video_path, fps_delay, total_frames,
                   current_frame_index, speed_factor, after_id, timers, buttons,
                   scale_to, scale_val, after_delay, open_caps, last,
                   dataVars, pureVars>>

\* the databases the window is started on: none, or a filled videos table of
\* the eight columns setup_db.py creates
AppDbFiles ==
    {d \in DbFiles : \/ ~d.exists
                     \/ /\ d.query_ok
                        /\ d.rows # <<>>
                        /\ \A k \in 1..Len(d.rows) : Len(d.rows[k]) = 8}

InitApp ==
    /\ PlayerInit
    /\ PureBoot(<<>>)
    /\ \E d \in AppDbFiles : DataBoot(d)

NextApp ==
    \/ NextData
    \/ \E video_row \in Range(rendered) : on_video_click(video_row)
    \/ accept_video
    \/ reject_video
    \/ phase = "running" /\ play_clicked
    \/ phase = "running" /\ pause_clicked
    \/ phase = "running" /\ stop_clicked
    \/ phase = "running" /\ TimerFires

SpecApp == InitApp /\ [][NextApp]_vars

\* ====================================================================
\* Properties
\* ====================================================================
\* number of occurrences of x in s
Count(x, s) == Cardinality({i \in 1..Len(s) : s[i] = x})
IsPermutation(a, b) ==
    /\ Len(a) = Len(b)
    /\ \A x \in Range(a) \cup Range(b) : Count(x, a) = Count(x, b)
\* s is ordered by sort key: never rising (latest first) / never falling
OrderedByKey(s, latest_first) ==
    \A i, j \in 1..Len(s) :
        i < j => IF latest_first THEN ~DtLess(SortKey(s[i]), SortKey(s[j]))
                                 ELSE ~DtLess(SortKey(s[j]), SortKey(s[i]))
Unparseable(r) == parse_timestamp(Field(r, IDX_TIMESTAMP)) = <<>>
AllSentinels == date_combo = "Any" /\ booth_combo = "All" /\ camera_combo = "Any"

\* --- C1 ---------------------------------------------------------------
\* C1: a load(path) whose path does not exist or cannot be opened shows an
\* error dialog and leaves the player as it was just before the call: capture
\* handle, playing flag, frame index, total frames, pending timer and the
\* transport buttons' state.
FailedLoad ==
    \E path \in Paths : (~FileExists(path) \/ ~FileOpens(path)) /\ LoadVideo(path)
C1_FailedLoadKeepsState ==
    [][FailedLoad =>
          /\ dialog' # "None"
          /\ cap' = cap
          /\ playing' = playing
          /\ current_frame_index' = current_frame_index
          /\ total_frames' = total_frames
          /\ after_id' = after_id
          /\ timers' = timers
          /\ buttons' = buttons]_vars

C3_AllErrorsCaught ==
    (phase # "boot" /\ db.exists /\ (~db.connects \/ ~db.query_ok))
        => (phase = "running" /\ fetched = [raised |-> FALSE, rows |-> <<>>])

\* --- C4 ---------------------------------------------------------------
\* C4: a 6-column row becomes an 8-column tuple: its six fields unchanged,
\* then "A1" and "001".
C4_SixColumnsGetDefaults ==
    pstep # "input" =>
        \A i \in 1..Len(in_rows) :
            Len(in_rows[i]) = 6 =>
                /\ i \in DOMAIN out_rows
                /\ Len(out_rows[i]) = 8
                /\ SubSeq(out_rows[i], 1, 6) = in_rows[i]
                /\ out_rows[i][7] = "A1"
                /\ out_rows[i][8] = "001"

C4_Witness ==
    /\ pstep = "coerced"
    /\ \E i \in 1..Len(in_rows) : Len(in_rows[i]) = 6 /\ Len(out_rows[i]) = 8

\* --- C5 ---------------------------------------------------------------
\* C5: a row of 8 or more columns becomes the tuple of exactly its first 8
\* fields, position by position.
C5_WideRowsKeepFirstEight ==
    pstep # "input" =>
        \A i \in 1..Len(in_rows) :
            Len(in_rows[i]) >= 8 =>
                /\ i \in DOMAIN out_rows
                /\ Len(out_rows[i]) = 8
                /\ \A k \in 1..8 : out_rows[i][k] = in_rows[i][k]

C5_Witness ==
    /\ pstep = "coerced"
    /\ \E i \in 1..Len(in_rows) : Len(in_rows[i]) > 8 /\ Len(out_rows[i]) = 8

\* --- C6 ---------------------------------------------------------------
\* C6: for a list of rows of any widths the result has the same length and
\* order, every element has exactly 8 fields, and a row whose width is neither
\* 6 nor >= 8 keeps its fields in place and is filled with "?" up to width 8.
C6_AlwaysEightColumns ==
    pstep # "input" =>
        /\ Len(out_rows) = Len(in_rows)
        /\ \A i \in 1..Len(in_rows) :
              /\ Len(out_rows[i]) = 8
              /\ \A k \in 1..Min(8, Len(in_rows[i])) : out_rows[i][k] = in_rows[i][k]
              /\ (Len(in_rows[i]) # 6 /\ Len(in_rows[i]) < 8)
                    => \A k \in (Len(in_rows[i]) + 1)..8 : out_rows[i][k] = "?"

C6_Witness ==
    /\ pstep = "coerced"
    /\ \E i, j \in 1..Len(in_rows) :
          /\ Len(in_rows[i]) = 0 /\ out_rows[i] = Repeat("?", 8)
          /\ Len(in_rows[j]) = 7 /\ out_rows[j][8] = "?"

\* --- C7 ---------------------------------------------------------------
\* C7 as stated: with the sentinel selected on every axis, the list rendered
\* is the in-memory list itself, same records in the same order.
C7_IdentityInOrder ==
    (phase = "running" /\ AllSentinels) => rendered = ALL_VIDEOS

\* C7 as amended: with the sentinel selected on every axis, the list rendered
\* holds exactly the records of the in-memory list, none dropped and none
\* added, in the order of the selected sort direction.
C7_AllRecordsSorted ==
    (phase = "running" /\ AllSentinels) =>
        /\ IsPermutation(rendered, ALL_VIDEOS)
        /\ OrderedByKey(rendered, sort_combo = "Latest First")

\* all sentinels selected, and the rendered order differs from the list's
C7_Witness ==
    /\ phase = "running" /\ AllSentinels
    /\ rendered # ALL_VIDEOS
    /\ Len(rendered) = Len(ALL_VIDEOS)

\* --- C8 ---------------------------------------------------------------
\* C8: with only a booth value B selected, the list rendered holds exactly
\* the in-memory records whose booth field is B; with several axes selected,
\* it holds exactly the records common to the lists each selection gives alone.
C8_BoothExactAndIntersection ==
    phase = "running" =>
        /\ (booth_combo # "All" /\ date_combo = "Any" /\ camera_combo = "Any")
              => /\ Range(rendered) =
                       {r \in Range(ALL_VIDEOS) : Field(r, IDX_BOOTH) = booth_combo}
                 /\ Len(rendered) = Cardinality(Range(rendered))
        /\ Range(rendered) =
              Range(apply_filters(ALL_VIDEOS, date_combo, "All", "Any", sort_combo))
              \cap Range(apply_filters(ALL_VIDEOS, "Any", booth_combo, "Any", sort_combo))
              \cap Range(apply_filters(ALL_VIDEOS, "Any", "All", camera_combo, sort_combo))

\* booth and camera both selected, some records kept and some excluded
C8_Witness ==
    /\ phase = "running"
    /\ booth_combo = "A1" /\ camera_combo = "002"
    /\ rendered # <<>>
    /\ Len(rendered) < Cardinality({r \in Range(ALL_VIDEOS) : Field(r, IDX_BOOTH) = "A1"})

\* --- C9 ---------------------------------------------------------------
\* C9 as stated: sort_videos returns a permutation of its input ordered by
\* parsed timestamp (descending for latest first, ascending otherwise), every
\* record with a missing or unparseable timestamp after all parseable records
\* in latest-first order and before all of them in oldest-first order.
C9_UnparseableAtTheEnd ==
    pstep \in {"sorted_latest", "sorted_oldest"} =>
        /\ IsPermutation(sorted_rows, out_rows)
        /\ OrderedByKey(sorted_rows, pstep = "sorted_latest")
        /\ \A i, j \in 1..Len(sorted_rows) :
              (Unparseable(sorted_rows[i]) /\ ~Unparseable(sorted_rows[j]))
                 => IF pstep = "sorted_latest" THEN j < i ELSE i < j

\* C9 as amended: the same, the placement holding against every parseable
\* record whose timestamp is later than datetime.min; a record that parses to
\* exactly datetime.min has the key of the unparseable ones and keeps its
\* input order among them.
C9_UnparseableSortAsMin ==
    pstep \in {"sorted_latest", "sorted_oldest"} =>
        /\ IsPermutation(sorted_rows, out_rows)
        /\ OrderedByKey(sorted_rows, pstep = "sorted_latest")
        /\ \A i, j \in 1..Len(sorted_rows) :
              (/\ Unparseable(sorted_rows[i])
               /\ ~Unparseable(sorted_rows[j])
               /\ parse_timestamp(Field(sorted_rows[j], IDX_TIMESTAMP)) # datetime_min)
                 => IF pstep = "sorted_latest" THEN j < i ELSE i < j

\* latest first moved an unparseable record behind a parseable one
C9_Witness ==
    /\ pstep = "sorted_latest"
    /\ Len(out_rows) = 2
    /\ Unparseable(out_rows[1]) /\ ~Unparseable(out_rows[2])
    /\ sorted_rows = <<out_rows[2], out_rows[1]>>

\* --- C10 --------------------------------------------------------------
\* C10: an axis whose selection is absent - the sentinel or the empty string -
\* is skipped: the list rendered holds exactly the records that satisfy the
\* axes that do carry a selection.
AxisHolds(sel, sentinel, value) == sel \in {sentinel, ""} \/ value = sel
C10_AbsentConstraintSkipped ==
    phase = "running" =>
        Range(rendered) =
            {r \in Range(ALL_VIDEOS) :
                /\ AxisHolds(date_combo, "Any", date_part(Field(r, IDX_TIMESTAMP)))
                /\ AxisHolds(booth_combo, "All", Field(r, IDX_BOOTH))
                /\ AxisHolds(camera_combo, "Any", Field(r, IDX_CAMERA))}


\* ====================================================================
\* Properties of the player
\* ====================================================================
UiSeekOps == {"on_seek", "seek_relative", "on_timeline_scroll"}

\* the frame index the last seeking handler asked for
Requested ==
    CASE last.op = "seek_relative" ->
             last.pre.current_frame_index
               + last.num * (IF FileFps(last.pre.cap) # 0 THEN FileFps(last.pre.cap) ELSE 30)
      [] last.op = "on_timeline_scroll" /\ last.path # "moveto" ->
             last.pre.current_frame_index
               + last.num * (IF last.path = "pages" THEN 100 ELSE 10)
      [] OTHER -> last.num

\* Requested brought into [0, total_frames) of the player before the seek
Clamped == Max(0, Min(last.pre.total_frames - 1, Requested))

\* the seeking handler left the handle of the same video at index i, or one
\* past it when the frame at i was read and shown
LeftAt(i, shown) ==
    /\ cap = last.pre.cap
    /\ IF shown /\ i < FileFrames(last.pre.cap)
       THEN cap_pos = i + 1 /\ current_frame_index = i + 1
       ELSE cap_pos = i /\ current_frame_index = i

\* C11 as stated: every seek on a loaded player, direct or through the
\* slider, the jump buttons or the timeline scrollbar, positions the capture
\* handle at the requested index clamped into [0, total_frames)
C11_EverySeekClamps ==
    (/\ last.op \in UiSeekOps \cup {"seek"}
     /\ last.pre.cap # "None"
     /\ last.pre.total_frames > 0)
    => \/ LeftAt(Clamped, TRUE)
       \/ LeftAt(Clamped, FALSE)

\* C11, amended: on a loaded player with total_frames > 0 a seek through the
\* slider, the jump buttons or the timeline scrollbar is clamped into
\* [0, total_frames) by ui_seek_to_frame, the handle is set to the clamped
\* index and the frame there is read; seek() itself does not clamp: it
\* positions at an index inside [0, total_frames) and ignores any other
C11_UiSeeksClampDirectSeeksDoNot ==
    /\ (/\ last.op \in UiSeekOps
        /\ last.pre.cap # "None"
        /\ last.pre.total_frames > 0)
       => LeftAt(Clamped, TRUE)
    /\ (last.op = "seek" /\ last.pre.cap # "None")
       => IF 0 <= last.num /\ last.num < last.pre.total_frames
          THEN LeftAt(last.num, last.path = "show_frame")
          ELSE /\ cap = last.pre.cap
               /\ cap_pos = last.pre.cap_pos
               /\ current_frame_index = last.pre.current_frame_index

\* a jump past the end of a loaded video ended on its last frame
C11_Witness ==
    /\ last.op = "seek_relative"
    /\ last.pre.cap # "None"
    /\ last.pre.total_frames > 1
    /\ Requested >= last.pre.total_frames
    /\ cap_pos = last.pre.total_frames
    /\ last.pre.cap_pos < last.pre.total_frames - 1

\* load(path) found the file and opened it
LoadSucceeded ==
    last.op = "load" /\ FileExists(last.path) /\ FileOpens(last.path)

\* C12: after a load that succeeds, whatever the player was doing before, the
\* handle is open on the new path and is the only one open, the frame index
\* is 0, the transport buttons are enabled and playback runs with its timer
\* pending
C12_LoadRestartsOnNewFile ==
    LoadSucceeded
    => /\ cap = last.path
       /\ video_path = last.path
       /\ open_caps = 1
       /\ cap_pos = 0
       /\ current_frame_index = 0
       /\ buttons = "normal"
       /\ playing
       /\ after_id = "pending"
       /\ timers = 1

\* a second video was loaded while the first was playing past its start
C12_Witness ==
    /\ LoadSucceeded
    /\ last.pre.cap # "None"
    /\ last.pre.cap # last.path
    /\ last.pre.playing
    /\ last.pre.current_frame_index > 0
    /\ cap = last.path

\* a _next_frame callback ran on a playing player
Ticked ==
    last.op = "_next_frame" /\ last.pre.playing /\ last.pre.cap # "None"

\* C13: a tick of a playing player reads at most one frame; when the read
\* succeeds the frame index grows by exactly 1 and the timer is armed again;
\* when it fails playing becomes false, no timer is armed, the index stays,
\* the handle stays loaded and no error is shown
C13_TickReadsOneFrame ==
    Ticked
    => /\ cap = last.pre.cap
       /\ IF last.pre.cap_pos < FileFrames(last.pre.cap)
          THEN /\ cap_pos = last.pre.cap_pos + 1
               /\ current_frame_index = last.pre.current_frame_index + 1
               /\ playing
               /\ after_id = "pending"
               /\ timers = 1
          ELSE /\ cap_pos = last.pre.cap_pos
               /\ current_frame_index = last.pre.current_frame_index
               /\ ~playing
               /\ after_id # "pending"
               /\ timers = 0
               /\ dialog = "None"

\* a tick found the stream at its end after frames had been played
C13_Witness ==
    /\ Ticked
    /\ last.pre.cap_pos >= FileFrames(last.pre.cap)
    /\ last.pre.current_frame_index > 0
    /\ ~playing
    /\ cap # "None"

\* C14: whatever factors set_speed was called with, speed_factor is at least
\* 0.1 (1 tenth), and a delay handed to label.after is at least 1 ms and is
\* max(1, floor(fps_delay / speed_factor))
C14_SpeedFlooredDelayPositive ==
    /\ speed_factor >= 1
    /\ after_delay # -1
       => /\ after_delay >= 1
          /\ after_delay * speed_factor <= fps_delay * 10 \/ after_delay = 1
          /\ (after_delay + 1) * speed_factor > fps_delay * 10

\* set_speed was called with a negative factor on a playing player and left
\* the speed at the 0.1x floor
C14_Witness ==
    /\ last.op = "set_speed"
    /\ last.num < 0
    /\ speed_factor = 1
    /\ playing
    /\ timers = 1

\* C16: under every interleaving of load, play, pause, stop, seek, set_speed
\* and ticks at most one timer callback is pending, one is pending exactly
\* while playing, playing needs a loaded handle, and so every callback that
\* runs finds the player it was armed for still playing
C16_OneTimerIffPlaying ==
    /\ timers <= 1
    /\ timers = 1 <=> playing
    /\ timers = 1 => after_id = "pending"
    /\ playing => cap # "None"
    /\ last.op = "_next_frame"
       => last.pre.playing /\ last.pre.cap # "None" /\ cap = last.pre.cap

\* a second video was loaded over one whose timer was pending, and only
\* the new video's timer is in the queue
C16_Witness ==
    /\ last.op = "load"
    /\ last.pre.playing
    /\ last.pre.cap \notin {"None", last.path}
    /\ cap = last.path
    /\ playing
    /\ after_id = "pending"
    /\ timers = 1

\* the player holds no video
Unloaded ==
    /\ cap = "None"
    /\ ~playing
    /\ current_frame_index = 0
    /\ total_frames = 0
    /\ timers = 0

\* C17: the transport buttons are enabled exactly while a handle is loaded;
\* stop() and a failed load leave the player unloaded (no handle, not
\* playing, index 0, total 0), and there play() changes nothing
C17_ButtonsIffLoaded ==
    /\ buttons = "normal" <=> cap # "None"
    /\ (last.op = "stop" \/ (last.op = "load" /\ ~LoadSucceeded)) => Unloaded
    /\ cap = "None" => Unloaded /\ play(Cur) = Cur
    /\ (last.op = "play" /\ last.pre.cap = "None") => Unloaded

\* play() was called on a player that had a video before and lost it
C17_Witness ==
    /\ last.op = "play"
    /\ last.pre.cap = "None"
    /\ video_path # "None"
    /\ Unloaded
    /\ buttons = "disabled"

\* the backend delivers exactly the frames the header of the loaded file states
BackendExact == cap # "None" => FileFrames(cap) = FileFrameCount(cap)

\* C18: while the backend delivers exactly total_frames frames, the frame
\* index stays within 0..total_frames under every interleaving of ticks,
\* slider seeks, jumps, timeline seeks, pause, play, stop and load
C18_IndexWithinTotal ==
    BackendExact
    => 0 <= current_frame_index /\ current_frame_index <= total_frames

\* a jump forward ended on the last frame, which put the index at total_frames
C18_Witness ==
    /\ cap # "None"
    /\ BackendExact
    /\ last.op = "seek_relative"
    /\ last.num > 0
    /\ last.pre.current_frame_index < total_frames - 1
    /\ current_frame_index = total_frames

\* playback has run into the end of the stream
Ended == ~playing /\ timers = 0

\* the last handler started from a paused player whose stream was at its end
FromEndOfStream ==
    /\ last.pre.cap # "None"
    /\ ~last.pre.playing
    /\ last.pre.cap_pos >= FileFrames(last.pre.cap)

\* C19: a playing video that no user operation touches any more runs, with
\* its timer firing fairly, into the end of the stream (not playing, no timer
\* pending) and stays there; play() at the end of the stream does not rewind,
\* and the next tick puts playing back to false with the index unchanged
C19_PlaybackEnds ==
    /\ [](playing /\ last.user = 0 => <>(Ended \/ last.user = 1))
    /\ [](playing /\ last.user = 1 => <>(Ended \/ last.user = 0))
    /\ [][Ended /\ last'.user = last.user => Ended']_vars
    /\ [](last.op = "play" /\ FromEndOfStream
          => /\ playing
             /\ timers = 1
             /\ cap_pos = last.pre.cap_pos
             /\ current_frame_index = last.pre.current_frame_index)
    /\ [](Ticked /\ last.pre.cap_pos >= FileFrames(last.pre.cap)
          => /\ Ended
             /\ cap_pos = last.pre.cap_pos
             /\ current_frame_index = last.pre.current_frame_index)

\* play() was pressed on a video that had run to its end
C19_Witness ==
    /\ last.op = "play"
    /\ FromEndOfStream
    /\ last.pre.current_frame_index > 0
    /\ playing
    /\ current_frame_index = last.pre.current_frame_index

\* the slider or a jump button kept the play status
StatusKept ==
    /\ last.pre.playing => playing /\ after_id = "pending" /\ timers = 1
    /\ ~last.pre.playing => ~playing /\ timers = 0

\* C20 as stated: a seek through the slider or the jump buttons keeps the play
\* status, and a seek through the timeline scrollbar always leaves the player
\* paused
C20_TimelineAlwaysPauses ==
    /\ last.op \in {"on_seek", "seek_relative"} => StatusKept
    /\ last.op = "on_timeline_scroll" => ~playing /\ timers = 0

\* C20, amended: a seek through the slider or the jump buttons keeps the play
\* status; a seek through the timeline scrollbar leaves the player paused
\* when the loaded video has total_frames > 0, and does nothing, so keeps the
\* player playing if it was, when total_frames is 0
C20_TimelinePausesKnownLength ==
    /\ last.op \in {"on_seek", "seek_relative"} => StatusKept
    /\ last.op = "on_timeline_scroll"
       => IF last.pre.total_frames > 0
          THEN ~playing /\ timers = 0
          ELSE StatusKept /\ cap_pos = last.pre.cap_pos

\* the timeline scrollbar was moved on a playing video of known length
C20_Witness ==
    /\ last.op = "on_timeline_scroll"
    /\ last.pre.playing
    /\ last.pre.total_frames > 0
    /\ ~playing
    /\ timers = 0
    /\ cap # "None"

\* ====================================================================
\* Properties of the whole window
\* ====================================================================
\* C15: once loaded at startup ALL_VIDEOS is left as it is by every filter,
\* sort, reset, video selection, accept/reject and playback step, and the
\* list handed to the grid holds only records of ALL_VIDEOS
C15_AllVideosNeverModified ==
    /\ [](phase = "running" => Range(rendered) \subseteq Range(ALL_VIDEOS))
    /\ [][phase = "running" => ALL_VIDEOS' = ALL_VIDEOS]_vars

\* a filtered, oldest-first list is on screen, a video of it is playing past
\* its first frame and was accepted
C15_Witness ==
    /\ phase = "running"
    /\ sort_combo = "Oldest First"
    /\ booth_combo # "All"
    /\ Len(rendered) >= 2
    /\ Len(rendered) < Len(ALL_VIDEOS)
    /\ last.op = "_next_frame"
    /\ playing
    /\ current_frame_index > 1
    /\ dialog = "Video accepted"

====
